---- MODULE Spec2Model ----
(***************************************************************************)
(* Model of src/src/processor.rs (OllamaProcessor): the yield target       *)
(* estimator, the JSON repair function, the text segmenters, the           *)
(* generation attempt loop, the recursive coverage controller and          *)
(* process_file with its check of previously persisted results.            *)
(*                                                                         *)
(* Text is a sequence of one-character strings.  Four specifications:      *)
(*   SpecTargets  calculate_question_targets on every word count           *)
(*   SpecRepair   sanitize_json on payloads assembled from pieces and on   *)
(*                payloads of the expected shape, cut off or with a        *)
(*                trailing comma                                           *)
(*   SpecSegment  split_by_headings and split_by_paragraphs on every short *)
(*                text                                                     *)
(*   Spec         process_file on a set of documents, file states,         *)
(*                backend replies and file-system faults                   *)
(***************************************************************************)
EXTENDS Integers, Sequences, FiniteSets, TLC

VARIABLES
    \* ---- SpecTargets
    word_count,         \* argument of calculate_question_targets
    targets,            \* its result <<base_goal, generation_target, min_acceptable>>, or NoTargets
    \* ---- SpecRepair
    raw,                \* argument of sanitize_json
    repaired,           \* Done(sanitize_json(raw)), or NotRun
    repaired2,          \* Done(sanitize_json(sanitize_json(raw))), or NotRun
    \* ---- SpecSegment
    section,            \* argument of split_by_headings and split_by_paragraphs
    by_headings,        \* Split(split_by_headings(section)), or NotSplit
    by_paragraphs,      \* Split(split_by_paragraphs(section)), or NotSplit
    \* ---- Spec (process_file)
    doc,                \* content of the source document
    jsonl,              \* the per-line file: [exists, lines]
    json,               \* the legacy array file: [exists, valid, items]
    pc,                 \* position of process_file
    result,             \* value returned by process_file, or NoValue
    all_items,          \* process_file's accumulator
    sections,           \* top-level sections of the document
    si,                 \* index of the section being processed
    section_target,     \* target passed to process_section_recursive
    level,              \* controller position: "whole", "heading", "paragraph"
    ctl_items,          \* the controller's all_items
    subs,               \* sub-sections of the current level
    sub,                \* index of the sub-section being attempted
    subsection_target,  \* the controller's subsection_target (0 at whole level)
    ctl_result,         \* value returned by process_section_recursive, or NoValue
    ps_section,         \* text passed to process_section
    generation_target,  \* number of pairs the prompt asks for
    retries,            \* process_section's retries counter
    requests,           \* backend requests issued by the current process_section call
    reply,              \* kind of the backend's reply to the last request of the call
    ps_result,          \* value returned by process_section, or NoValue
    backend_used,       \* TRUE once process_file has issued a backend request
    best_single,        \* largest item count returned by an attempt of the current controller call
    attempts,           \* process_section calls made by the current controller call
    failed_subs,        \* sub-sections of the current level whose process_section call failed
    failed_sections,    \* sections whose process_section_recursive call failed
    failed_ops,         \* file operations that were executed and failed
    writes              \* number of writes of the per-line file by this run

vars == <<word_count, targets, raw, repaired, repaired2,
          section, by_headings, by_paragraphs,
          doc, jsonl, json, pc, result, all_items, sections, si, section_target,
          level, ctl_items, subs, sub, subsection_target, ctl_result,
          ps_section, generation_target, retries, requests, reply, ps_result,
          backend_used, best_single, attempts, failed_subs, failed_sections,
          failed_ops, writes>>

targetsVars == <<word_count, targets>>
repairVars == <<raw, repaired, repaired2>>
segmentVars == <<section, by_headings, by_paragraphs>>
fileVars == <<doc, jsonl, json, pc, result, all_items, sections, si, section_target,
              level, ctl_items, subs, sub, subsection_target, ctl_result,
              ps_section, generation_target, retries, requests, reply, ps_result,
              backend_used, best_single, attempts, failed_subs, failed_sections,
          failed_ops, writes>>

\* Values of Result<Vec<ProcessedItem>>, and "has not returned yet"
NoValue == [tag |-> "none", items |-> <<>>]
Failure == [tag |-> "err", items |-> <<>>]
Ok(items) == [tag |-> "ok", items |-> items]

\* Value of targets before the estimator has run
NoTargets == <<>>

\* Values of repaired and repaired2
NotRun == [done |-> FALSE, text |-> <<>>]
Done(text) == [done |-> TRUE, text |-> text]

\* Values of by_headings and by_paragraphs
NotSplit == [done |-> FALSE, chunks |-> <<>>]
Split(chunks) == [done |-> TRUE, chunks |-> chunks]

Max(a, b) == IF a >= b THEN a ELSE b

\* ceil(a / b) for a >= 0, b > 0
CeilDiv(a, b) == (a + b - 1) \div b

(***************************************************************************)
(* Bounds                                                                  *)
(***************************************************************************)
MaxWordCount == 130    \* largest word count given to the estimator
MaxPieces == 4         \* largest number of pieces in a payload given to sanitize_json
MaxItems == 2          \* largest number of items in one backend reply
MaxFileItems == 2      \* largest number of lines or items in a previously persisted file
MaxEntries == 2        \* largest number of entries in a payload of the expected shape
MaxTextLen == 5        \* largest number of characters in a text given to the segmenters

(***************************************************************************)
(* calculate_question_targets.  The code computes in f64:                  *)
(* ceil(w / 10.0), ceil(base * 0.25), ceil(base * 0.8).  For every         *)
(* w < 2 * 10^6 these equal the exact integer ceilings below (0.25 is      *)
(* exact; 0.8 is 0.8 * (1 + 2^-54), below half an ulp of any product).     *)
(***************************************************************************)
calculate_question_targets_no_floor(w) ==
    LET base_goal == CeilDiv(w, 10)
        extra_questions == Max(CeilDiv(base_goal, 4), 2)
        min_acceptable == Max(CeilDiv(4 * base_goal, 5), 2)
    IN  <<base_goal, base_goal + extra_questions, min_acceptable>>

calculate_question_targets_extra_floor(w) ==
    LET base_goal == Max(CeilDiv(w, 10), 2)
        extra_questions == base_goal \div 4
        min_acceptable == Max(CeilDiv(4 * base_goal, 5), 2)
    IN  <<base_goal, base_goal + Max(extra_questions, 2), min_acceptable>>

calculate_question_targets(w) ==
    LET base_goal == Max(CeilDiv(w, 10), 2)
        extra_questions == Max(CeilDiv(base_goal, 4), 2)
        generation_target_ == base_goal + extra_questions
        min_acceptable == Max(CeilDiv(4 * base_goal, 5), 2)
    IN  <<base_goal, generation_target_, min_acceptable>>

(***************************************************************************)
(* Text helpers (str methods and regex classes used by the code)           *)
(***************************************************************************)
\* char::is_whitespace / regex \s, on the characters the model uses
IsWs(c) == c \in {" ", "\n", "\r", "\t"}

\* text.trim().is_empty()
IsBlank(text) == \A i \in 1..Len(text) : IsWs(text[i])

\* text.split_whitespace().count()
count_words(text) ==
    Cardinality({i \in 1..Len(text) :
                    ~IsWs(text[i]) /\ (i = 1 \/ IsWs(text[i - 1]))})

StartsWith(text, p) ==
    Len(text) >= Len(p) /\ SubSeq(text, 1, Len(p)) = p

EndsWith(text, s) ==
    Len(text) >= Len(s) /\ SubSeq(text, Len(text) - Len(s) + 1, Len(text)) = s

\* True when pattern p occurs in text at (1-based) index i
OccursAt(text, p, i) ==
    i >= 1 /\ i + Len(p) - 1 <= Len(text) /\ SubSeq(text, i, i + Len(p) - 1) = p

\* text.rfind(p): index of the last occurrence, 0 for Option::None
RFind(text, p) ==
    LET hits == {i \in 1..Len(text) : OccursAt(text, p, i)}
    IN  IF hits = {} THEN 0 ELSE CHOOSE i \in hits : \A j \in hits : j <= i

\* text.trim_end()
TrimEnd(text) ==
    LET keep == {i \in 1..Len(text) : ~IsWs(text[i])}
    IN  IF keep = {} THEN <<>>
        ELSE SubSeq(text, 1, CHOOSE i \in keep : \A j \in keep : j <= i)

\* text.trim()
Trim(text) ==
    LET keep == {i \in 1..Len(text) : ~IsWs(text[i])}
    IN  IF keep = {} THEN <<>>
        ELSE SubSeq(text, CHOOSE i \in keep : \A j \in keep : i <= j,
                          CHOOSE i \in keep : \A j \in keep : j <= i)

\* index of the first "\n" of text, 0 when there is none
FirstNewline(text) ==
    LET hits == {i \in 1..Len(text) : text[i] = "\n"}
    IN  IF hits = {} THEN 0 ELSE CHOOSE i \in hits : \A j \in hits : i <= j

\* text.lines(): split at "\n"; a line that ends in "\n" loses it and then a
\* "\r" before it; a last line without "\n" is kept as it is
RECURSIVE Lines(_)
Lines(text) ==
    IF text = <<>> THEN <<>>
    ELSE LET k == FirstNewline(text)
         IN  IF k = 0 THEN <<text>>
             ELSE LET l == SubSeq(text, 1, k - 1)
                      line == IF l # <<>> /\ l[Len(l)] = "\r"
                              THEN SubSeq(l, 1, Len(l) - 1) ELSE l
                  IN  <<line>> \o Lines(SubSeq(text, k + 1, Len(text)))

\* concatenation of a sequence of texts
RECURSIVE Concat(_)
Concat(texts) == IF texts = <<>> THEN <<>> ELSE Head(texts) \o Concat(Tail(texts))

(***************************************************************************)
(* Text segmenters                                                         *)
(***************************************************************************)
\* Regex (?m)^#\s|^##\s matched against one line
header_regex_is_match(line) ==
    \/ Len(line) >= 2 /\ line[1] = "#" /\ IsWs(line[2])
    \/ Len(line) >= 3 /\ line[1] = "#" /\ line[2] = "#" /\ IsWs(line[3])

RECURSIVE SectionsLoop(_, _, _)
SectionsLoop(ls, secs, cur) ==
    IF ls = <<>> THEN <<secs, cur>>
    ELSE LET line == Head(ls)
             hdr == header_regex_is_match(line)
             secs2 == IF hdr /\ ~IsBlank(cur) THEN Append(secs, cur) ELSE secs
             cur2 == IF hdr THEN <<>> ELSE cur
         IN  SectionsLoop(Tail(ls), secs2, cur2 \o line \o <<"\n">>)

split_into_sections(content) ==
    LET r == SectionsLoop(Lines(content), <<>>, <<>>)
        secs == IF ~IsBlank(r[2]) THEN Append(r[1], r[2]) ELSE r[1]
    IN  IF secs = <<>> THEN <<content>> ELSE secs

RECURSIVE HeadingsLoop(_, _, _)
HeadingsLoop(ls, secs, cur) ==
    IF ls = <<>> THEN <<secs, cur>>
    ELSE LET line == Head(ls)
             flush == line # <<>> /\ line[1] = "#" /\ ~IsBlank(cur)
             secs2 == IF flush THEN Append(secs, cur) ELSE secs
             cur2 == IF flush THEN <<>> ELSE cur
         IN  HeadingsLoop(Tail(ls), secs2, cur2 \o line \o <<"\n">>)

split_by_headings_drops_last(text) ==
    LET r == HeadingsLoop(Lines(text), <<>>, <<>>)
    IN  IF r[1] = <<>> THEN <<text>> ELSE r[1]

split_by_headings(content) ==
    LET r == HeadingsLoop(Lines(content), <<>>, <<>>)
        secs == IF ~IsBlank(r[2]) THEN Append(r[1], r[2]) ELSE r[1]
    IN  IF secs = <<>> THEN <<content>> ELSE secs

RECURSIVE ParagraphsLoop(_, _, _, _)
ParagraphsLoop(ls, secs, cur, empty_lines) ==
    IF ls = <<>> THEN <<secs, cur>>
    ELSE LET line == Head(ls)
             blank == IsBlank(line)
             flush == blank /\ empty_lines + 1 >= 2 /\ ~IsBlank(cur)
             secs2 == IF flush THEN Append(secs, cur) ELSE secs
             cur2 == IF flush THEN <<>> ELSE cur
             empty2 == IF ~blank \/ flush THEN 0 ELSE empty_lines + 1
         IN  ParagraphsLoop(Tail(ls), secs2, cur2 \o line \o <<"\n">>, empty2)

\* a loop in which a chunk ends at the first blank line after non-blank content
RECURSIVE ParagraphsLoop_one_blank(_, _, _)
ParagraphsLoop_one_blank(ls, secs, cur) ==
    IF ls = <<>> THEN <<secs, cur>>
    ELSE LET line == Head(ls)
             flush == IsBlank(line) /\ ~IsBlank(cur)
             secs2 == IF flush THEN Append(secs, cur) ELSE secs
             cur2 == IF flush THEN <<>> ELSE cur
         IN  ParagraphsLoop_one_blank(Tail(ls), secs2, cur2 \o line \o <<"\n">>)

split_by_paragraphs_one_blank(text) ==
    LET r == ParagraphsLoop_one_blank(Lines(text), <<>>, <<>>)
        secs == IF ~IsBlank(r[2]) THEN Append(r[1], r[2]) ELSE r[1]
    IN  IF secs = <<>> THEN <<text>> ELSE secs

split_by_paragraphs_keeps_blank(text) ==
    LET r == ParagraphsLoop(Lines(text), <<>>, <<>>, 0)
    IN  Append(r[1], r[2])

split_by_paragraphs(content) ==
    LET r == ParagraphsLoop(Lines(content), <<>>, <<>>, 0)
        secs == IF ~IsBlank(r[2]) THEN Append(r[1], r[2]) ELSE r[1]
    IN  IF secs = <<>> THEN <<content>> ELSE secs

(***************************************************************************)
(* sanitize_json                                                           *)
(***************************************************************************)
\* the backtick character (written "~": a TLA+ string cannot hold a backtick)
BT == "~"
FENCE_OPEN == <<BT, BT, BT, "j", "s", "o", "n">>
FENCE_CLOSE == <<BT, BT, BT>>
ANSWER_KEY == <<"\"", ",", "\"", "a", "n", "s", "w", "e", "r", "\"", ":">>
QUESTION_KEY == <<"{", "\"", "q", "u", "e", "s", "t", "i", "o", "n", "\"", ":">>

\* lines 30-38: strip a code fence (FENCE_OPEN ... FENCE_CLOSE) when both ends are present
StripFence(text) ==
    IF StartsWith(text, FENCE_OPEN)
    THEN LET content == SubSeq(text, Len(FENCE_OPEN) + 1, Len(text))
         IN  IF EndsWith(content, FENCE_CLOSE)
             THEN Trim(SubSeq(content, 1, Len(content) - Len(FENCE_CLOSE)))
             ELSE text
    ELSE text

\* lines 41-62: close a payload that does not end with a closing brace
TruncatedFix(text) ==
    IF ~EndsWith(TrimEnd(text), <<"}">>)
    THEN LET last_complete == RFind(text, ANSWER_KEY)
         IN  IF last_complete # 0
             THEN LET head == SubSeq(text, 1, last_complete - 1)
                      last_question == RFind(head, QUESTION_KEY)
                  IN  IF last_question # 0
                      THEN SubSeq(text, 1, last_question - 1) \o <<"]", "}", "}", "}">>
                      ELSE head \o <<"}", "]", "}", "}", "}">>
             ELSE LET last_braces == RFind(text, <<"}", "}">>)
                  IN  IF last_braces # 0
                      THEN SubSeq(text, 1, last_braces) \o <<"}">>
                      ELSE text
    ELSE text

\* index of the first non-whitespace character at or after i, 0 when none
NextNonWs(text, i) ==
    LET hits == {j \in i..Len(text) : ~IsWs(text[j])}
    IN  IF hits = {} THEN 0 ELSE CHOOSE j \in hits : \A k \in hits : j <= k

\* lines 65-66: replace_all of ,(\s*[\]}]) by $1, scanning left to right
RECURSIVE RemoveTrailingCommasFrom(_, _)
RemoveTrailingCommasFrom(text, i) ==
    IF i > Len(text) THEN <<>>
    ELSE LET j == NextNonWs(text, i + 1)
         IN  IF text[i] = "," /\ j # 0 /\ text[j] \in {"]", "}"}
             THEN SubSeq(text, i + 1, j) \o RemoveTrailingCommasFrom(text, j + 1)
             ELSE <<text[i]>> \o RemoveTrailingCommasFrom(text, i + 1)

RemoveTrailingCommas(text) == RemoveTrailingCommasFrom(text, 1)

\* lines 69-70: replace_all of \s*\n\s* by one space; a match is a maximal
\* whitespace run that holds a newline
RECURSIVE CollapseNewlinesFrom(_, _)
CollapseNewlinesFrom(text, i) ==
    IF i > Len(text) THEN <<>>
    ELSE IF IsWs(text[i])
         THEN LET j == NextNonWs(text, i)
                  e == IF j = 0 THEN Len(text) ELSE j - 1
              IN  IF \E k \in i..e : text[k] = "\n"
                  THEN <<" ">> \o CollapseNewlinesFrom(text, e + 1)
                  ELSE SubSeq(text, i, e) \o CollapseNewlinesFrom(text, e + 1)
         ELSE <<text[i]>> \o CollapseNewlinesFrom(text, i + 1)

CollapseNewlines(text) == CollapseNewlinesFrom(text, 1)

\* lines 73-94: keep \" and turn every other backslash into a slash
RECURSIVE FixBackslashesFrom(_, _)
FixBackslashesFrom(text, i) ==
    IF i > Len(text) THEN <<>>
    ELSE IF text[i] = "\\"
         THEN IF i < Len(text) /\ text[i + 1] = "\""
              THEN <<"\\", "\"">> \o FixBackslashesFrom(text, i + 2)
              ELSE <<"/">> \o FixBackslashesFrom(text, i + 1)
         ELSE <<text[i]>> \o FixBackslashesFrom(text, i + 1)

FixBackslashes(text) == FixBackslashesFrom(text, 1)

sanitize_json_keeps_commas(text) ==
    FixBackslashes(CollapseNewlines(TruncatedFix(StripFence(text))))

sanitize_json(text) ==
    FixBackslashes(CollapseNewlines(RemoveTrailingCommas(TruncatedFix(StripFence(text)))))

(***************************************************************************)
(* serde_json::from_str::<QuestionResponse>, line 395, on the texts the     *)
(* model gives it: an object with the key questions holding an array of    *)
(* objects with the keys question and answer, in that order, with optional *)
(* whitespace between tokens and nothing but whitespace after the closing  *)
(* brace.  A position is the index of the next character; 0 is an error.   *)
(***************************************************************************)
QUESTIONS_NAME == <<"\"", "q", "u", "e", "s", "t", "i", "o", "n", "s", "\"">>
QUESTION_NAME == <<"\"", "q", "u", "e", "s", "t", "i", "o", "n", "\"">>
ANSWER_NAME == <<"\"", "a", "n", "s", "w", "e", "r", "\"">>

\* position of the first character at or after i that is not whitespace
SkipWs(text, i) ==
    LET j == NextNonWs(text, i) IN IF j = 0 THEN Len(text) + 1 ELSE j

\* read the token p at position i, after optional whitespace
Token(text, i, p) ==
    IF i = 0 THEN 0
    ELSE LET j == SkipWs(text, i)
         IN  IF OccursAt(text, p, j) THEN j + Len(p) ELSE 0

\* index of the quote that closes a string whose content starts at i; a
\* backslash escapes the next character, a raw control character is an error
RECURSIVE StringClose(_, _)
StringClose(text, i) ==
    IF i > Len(text) THEN 0
    ELSE IF text[i] = "\"" THEN i
    ELSE IF text[i] = "\\"
         THEN IF i < Len(text) /\ text[i + 1] \in {"\"", "\\", "/", "b", "f", "n", "r", "t"}
              THEN StringClose(text, i + 2)
              ELSE 0
    ELSE IF text[i] \in {"\n", "\r", "\t"} THEN 0
    ELSE StringClose(text, i + 1)

\* read a string at position i: its content (escapes as written) and the
\* position after it
ParseString(text, i) ==
    LET open == Token(text, i, <<"\"">>)
        close == IF open = 0 THEN 0 ELSE StringClose(text, open)
    IN  IF close = 0 THEN [next |-> 0, value |-> <<>>]
        ELSE [next |-> close + 1, value |-> SubSeq(text, open, close - 1)]

\* read one ProcessedItem at position i
ParseItem(text, i) ==
    LET q == ParseString(text,
                 Token(text, Token(text, Token(text, i, <<"{">>), QUESTION_NAME), <<":">>))
        a == ParseString(text,
                 Token(text, Token(text, Token(text, q.next, <<",">>), ANSWER_NAME), <<":">>))
    IN  [next |-> Token(text, a.next, <<"}">>), question |-> q.value, answer |-> a.value]

\* read the items of a non-empty array up to and including its closing bracket
RECURSIVE ParseItems(_, _, _)
ParseItems(text, i, acc) ==
    LET item == ParseItem(text, i)
        more == Token(text, item.next, <<",">>)
        acc2 == Append(acc, <<item.question, item.answer>>)
    IN  IF item.next = 0 THEN [next |-> 0, items |-> <<>>]
        ELSE IF more # 0 THEN ParseItems(text, more, acc2)
        ELSE [next |-> Token(text, item.next, <<"]">>), items |-> acc2]

\* the parse of text as a QuestionResponse: ok and the <<question, answer>> pairs
from_str_QuestionResponse(text) ==
    LET open == Token(text, Token(text, Token(text, Token(text, 1, <<"{">>),
                                  QUESTIONS_NAME), <<":">>), <<"[">>)
        empty == Token(text, open, <<"]">>)
        arr == IF empty # 0 THEN [next |-> empty, items |-> <<>>]
               ELSE IF open = 0 THEN [next |-> 0, items |-> <<>>]
               ELSE ParseItems(text, open, <<>>)
        close == Token(text, arr.next, <<"}">>)
    IN  IF close # 0 /\ SkipWs(text, close) = Len(text) + 1
        THEN [ok |-> TRUE, items |-> arr.items]
        ELSE [ok |-> FALSE, items |-> <<>>]

(***************************************************************************)
(* Idle values: a specification keeps the variables of the others fixed    *)
(***************************************************************************)
TargetsIdle == word_count = 0 /\ targets = NoTargets

RepairIdle == raw = <<>> /\ repaired = NotRun /\ repaired2 = NotRun

SegmentIdle ==
    section = <<>> /\ by_headings = NotSplit /\ by_paragraphs = NotSplit

FileIdle ==
    /\ doc = <<>>
    /\ jsonl = [exists |-> FALSE, lines |-> <<>>]
    /\ json = [exists |-> FALSE, valid |-> FALSE, items |-> <<>>]
    /\ pc = "idle" /\ result = NoValue /\ all_items = <<>>
    /\ sections = <<>> /\ si = 0 /\ section_target = 0
    /\ level = "none" /\ ctl_items = <<>> /\ subs = <<>> /\ sub = 0
    /\ subsection_target = 0 /\ ctl_result = NoValue
    /\ ps_section = <<>> /\ generation_target = 0 /\ retries = 0
    /\ requests = 0 /\ reply = "none" /\ ps_result = NoValue
    /\ backend_used = FALSE /\ best_single = 0 /\ attempts = 0
    /\ failed_subs = {} /\ failed_sections = {} /\ failed_ops = {} /\ writes = 0

(***************************************************************************)
(* SpecTargets: the estimator applied to every word count up to the bound  *)
(***************************************************************************)
InitTargets ==
    /\ word_count \in 0..MaxWordCount
    /\ targets = NoTargets
    /\ RepairIdle /\ SegmentIdle /\ FileIdle

Estimate ==
    /\ targets = NoTargets
    /\ targets' = calculate_question_targets(word_count)
    /\ UNCHANGED <<word_count, repairVars, segmentVars, fileVars>>

NextTargets == Estimate

SpecTargets == InitTargets /\ [][NextTargets]_vars

(***************************************************************************)
(* SpecRepair: sanitize_json applied once and twice to payloads assembled  *)
(* from the markers the function looks for                                 *)
(***************************************************************************)
Pieces ==
    {FENCE_OPEN, FENCE_CLOSE, QUESTION_KEY, ANSWER_KEY,
     <<"}">>, <<"]">>, <<",">>, <<" ">>, <<"\n">>, <<"\\">>, <<"\"">>}

\* the texts made of at most n pieces
AssembledTexts(n) ==
    {Concat(ps) : ps \in UNION {[1..m -> Pieces] : m \in 0..n}}

\* A payload of the expected shape with n entries, written without
\* whitespace: {"questions":[{"question":"Q1","answer":"A1"},...]}
Digits == <<"1", "2", "3", "4", "5", "6", "7", "8", "9">>

QuestionOf(k) == <<"Q", Digits[k]>>

AnswerOf(k) == <<"A", Digits[k]>>

Entry(k) ==
    QUESTION_KEY \o <<"\"">> \o QuestionOf(k) \o ANSWER_KEY
        \o <<"\"">> \o AnswerOf(k) \o <<"\"", "}">>

RECURSIVE Entries(_)
Entries(n) ==
    IF n = 0 THEN <<>>
    ELSE IF n = 1 THEN Entry(1)
    ELSE Entries(n - 1) \o <<",">> \o Entry(n)

QUESTIONS_OPEN == <<"{">> \o QUESTIONS_NAME \o <<":", "[">>

PayloadOf(n) == QUESTIONS_OPEN \o Entries(n) \o <<"]", "}">>

\* indexes of the opening and of the closing brace of entry j of a payload
EntryStart(j) == Len(QUESTIONS_OPEN) + (j - 1) * (Len(Entry(1)) + 1) + 1

EntryEnd(j) == EntryStart(j) + Len(Entry(1)) - 1

\* the payloads of the expected shape and everything they can be cut down to
TruncatedPayloads ==
    UNION {{SubSeq(PayloadOf(n), 1, m) : m \in 0..Len(PayloadOf(n))} : n \in 0..MaxEntries}

\* the payloads of the expected shape with a comma after the last entry,
\* followed by a space or not
TrailingCommaPayloads ==
    {QUESTIONS_OPEN \o Entries(n) \o <<",">> \o ws \o <<"]", "}">> :
        n \in 1..MaxEntries, ws \in {<<>>, <<" ">>}}

InitRepair ==
    /\ raw \in AssembledTexts(MaxPieces) \cup TruncatedPayloads \cup TrailingCommaPayloads
    /\ repaired = NotRun /\ repaired2 = NotRun
    /\ TargetsIdle /\ SegmentIdle /\ FileIdle

Repair ==
    /\ ~repaired.done
    /\ repaired' = Done(sanitize_json(raw))
    /\ UNCHANGED <<raw, repaired2, targetsVars, segmentVars, fileVars>>

RepairAgain ==
    /\ repaired.done /\ ~repaired2.done
    /\ repaired2' = Done(sanitize_json(repaired.text))
    /\ UNCHANGED <<raw, repaired, targetsVars, segmentVars, fileVars>>

NextRepair == Repair \/ RepairAgain

SpecRepair == InitRepair /\ [][NextRepair]_vars

(***************************************************************************)
(* SpecSegment: split_by_headings and split_by_paragraphs applied to every *)
(* text of at most MaxTextLen characters over an alphabet of a heading     *)
(* mark, a letter, a space and the two line terminator characters          *)
(***************************************************************************)
Alphabet == {"#", "a", " ", "\n", "\r"}

\* the texts of at most n characters
Texts(n) == UNION {[1..m -> Alphabet] : m \in 0..n}

InitSegment ==
    /\ section \in Texts(MaxTextLen)
    /\ by_headings = NotSplit /\ by_paragraphs = NotSplit
    /\ TargetsIdle /\ RepairIdle /\ FileIdle

SplitByHeadings ==
    /\ ~by_headings.done
    /\ by_headings' = Split(split_by_headings(section))
    /\ UNCHANGED <<section, by_paragraphs, targetsVars, repairVars, fileVars>>

SplitByParagraphs ==
    /\ ~by_paragraphs.done
    /\ by_paragraphs' = Split(split_by_paragraphs(section))
    /\ UNCHANGED <<section, by_headings, targetsVars, repairVars, fileVars>>

NextSegment == SplitByHeadings \/ SplitByParagraphs

SpecSegment == InitSegment /\ [][NextSegment]_vars

(***************************************************************************)
(* Spec: process_file.  Items are records naming where they come from.     *)
(***************************************************************************)
MAX_RETRIES == 3

Item(sec, lvl, sb, k) == [sec |-> sec, level |-> lvl, sub |-> sb, k |-> k]

\* the n items parsed from one reply for chunk <<sec, lvl, sb>>
Items(sec, lvl, sb, n) == [k \in 1..n |-> Item(sec, lvl, sb, k)]

\* a line of the per-line file that does not parse as a ProcessedItem
BadLine == Item(0, "bad", 0, 0)

\* lines 464-468: the lines of the per-line file that parse
ValidItems(lines) == SelectSeq(lines, LAMBDA l : l # BadLine)

\* lines 474 and 497: items.len() >= min_acceptable
Sufficient_strict(n, min_acceptable) == n > min_acceptable

Sufficient(n, min_acceptable) == n >= min_acceptable

\* (target as f64 * (part as f64 / whole as f64)).ceil() as usize, lines 235-236,
\* 261-262 and 547-548.  0/0 is NaN and casts to 0.  For target < 25 the f64
\* result equals the exact ceiling (the first difference is 25 * (7/25) -> 8).
ProportionalTarget(target, part, whole) ==
    IF whole = 0 THEN 0 ELSE CeilDiv(target * part, whole)

\* process_file's total_words and total_questions_needed, lines 528-529
TotalWords == count_words(doc)

TotalNeeded == calculate_question_targets(TotalWords)[2]

\* The file operations that can fail
StartOps ==
    {"read_source", "read_jsonl", "read_json", "read_source_again",
     "convert_read", "convert_write"}

SaveOps == {"create_jsonl", "write_jsonl"}

\* What a write that fails after k lines leaves behind (k < 0: nothing was
\* created or truncated)
PartialFile(old, items, k) ==
    IF k < 0 THEN old
    ELSE [exists |-> TRUE,
          lines |-> SubSeq(items, 1, IF k < Len(items) THEN k ELSE Len(items) - 1)]

convert_json_to_jsonl_no_write(F, k) ==
    IF "convert_read" \in F
    THEN [ok |-> FALSE, items |-> <<>>, jsonl |-> jsonl, failed |-> {"convert_read"}, wrote |-> 0]
    ELSE [ok |-> TRUE, items |-> json.items, jsonl |-> jsonl, failed |-> {}, wrote |-> 0]

\* convert_json_to_jsonl, under the faults F
convert_json_to_jsonl(F, k) ==
    IF "convert_read" \in F
    THEN [ok |-> FALSE, items |-> <<>>, jsonl |-> jsonl, failed |-> {"convert_read"}, wrote |-> 0]
    ELSE IF "convert_write" \in F
    THEN [ok |-> FALSE, items |-> <<>>, jsonl |-> PartialFile(jsonl, json.items, k),
          failed |-> {"convert_write"}, wrote |-> IF k < 0 THEN 0 ELSE 1]
    ELSE [ok |-> TRUE, items |-> json.items,
          jsonl |-> [exists |-> TRUE, lines |-> json.items], failed |-> {}, wrote |-> 1]

\* check_existing_qa, under the faults F: outcome "some" is Ok(Some(items)),
\* "none" is Ok(None), "err" is Err
check_existing_qa(F, k) ==
    LET min_acceptable == calculate_question_targets(count_words(doc))[3]
        Ret(o, its, failed) ==
            [outcome |-> o, items |-> its, jsonl |-> jsonl, failed |-> failed, wrote |-> 0]
    IN  IF jsonl.exists
        THEN IF "read_jsonl" \in F THEN Ret("none", <<>>, {"read_jsonl"})
             ELSE LET items == ValidItems(jsonl.lines)
                  IN  IF items = <<>> THEN Ret("none", <<>>, {})
                      ELSE IF "read_source_again" \in F
                           THEN Ret("err", <<>>, {"read_source_again"})
                      ELSE IF Sufficient(Len(items), min_acceptable)
                           THEN Ret("some", items, {})
                      ELSE Ret("none", <<>>, {})
        ELSE IF ~json.exists THEN Ret("none", <<>>, {})
             ELSE IF "read_json" \in F THEN Ret("none", <<>>, {"read_json"})
             ELSE IF ~json.valid THEN Ret("none", <<>>, {})
             ELSE IF "read_source_again" \in F
                  THEN Ret("err", <<>>, {"read_source_again"})
             ELSE IF Sufficient(Len(json.items), min_acceptable)
                  THEN LET conv == convert_json_to_jsonl(F, k)
                       IN  [outcome |-> IF conv.ok THEN "some" ELSE "none",
                            items |-> conv.items, jsonl |-> conv.jsonl,
                            failed |-> conv.failed, wrote |-> conv.wrote]
             ELSE Ret("none", <<>>, {})

\* process_section up to its first request, lines 285-309
BeginAttempt(text, n) ==
    /\ ps_section' = text
    /\ generation_target' = calculate_question_targets(count_words(text))[2]
    /\ retries' = 0
    /\ requests' = 0
    /\ reply' = "none"
    /\ ps_result' = NoValue
    /\ attempts' = n
    /\ pc' = "request"

AttemptIdle ==
    /\ ps_section' = <<>> /\ generation_target' = 0 /\ retries' = 0
    /\ requests' = 0 /\ reply' = "none" /\ ps_result' = NoValue

ControllerIdle ==
    /\ section_target' = 0 /\ level' = "none" /\ ctl_items' = <<>>
    /\ subs' = <<>> /\ sub' = 0 /\ subsection_target' = 0
    /\ ctl_result' = NoValue /\ best_single' = 0 /\ attempts' = 0
    /\ failed_subs' = {}

\* index of the first section at or after i that is not blank, 0 when none
NextNonBlank(secs, i) ==
    LET c == {j \in i..Len(secs) : ~IsBlank(secs[j])}
    IN  IF c = {} THEN 0 ELSE CHOOSE j \in c : \A m \in c : j <= m

\* process_file's loop from section i on, lines 540-553: skip blank sections,
\* compute the section's target and call process_section_recursive, which
\* calls process_section on the whole section (line 222)
EnterSections(secs, i) ==
    LET j == NextNonBlank(secs, i)
    IN  IF j = 0
        THEN /\ pc' = "save"
             /\ si' = Len(secs) + 1
             /\ ControllerIdle /\ AttemptIdle
        ELSE /\ si' = j
             /\ section_target' =
                    ProportionalTarget(TotalNeeded, count_words(secs[j]), TotalWords)
             /\ level' = "whole" /\ ctl_items' = <<>> /\ subs' = <<>> /\ sub' = 0
             /\ subsection_target' = 0 /\ ctl_result' = NoValue /\ best_single' = 0
             /\ failed_subs' = {}
             /\ BeginAttempt(secs[j], 1)

\* process_file from its start to its return or to the first backend request,
\* lines 525-553.  F: the file operations that fail if they are executed;
\* k: what a failing write leaves behind.
Start(F, k) ==
    /\ pc = "start"
    /\ IF "read_source" \in F
       THEN /\ result' = Failure /\ pc' = "done"
            /\ failed_ops' = {"read_source"}
            /\ UNCHANGED <<jsonl, sections, si, writes>>
            /\ ControllerIdle /\ AttemptIdle
       ELSE LET chk == check_existing_qa(F, k)
            IN  /\ failed_ops' = chk.failed
                /\ jsonl' = chk.jsonl
                /\ writes' = chk.wrote
                /\ IF chk.outcome = "err"
                   THEN /\ result' = Failure /\ pc' = "done"
                        /\ UNCHANGED <<sections, si>>
                        /\ ControllerIdle /\ AttemptIdle
                   ELSE IF chk.outcome = "some"
                   THEN /\ result' = Ok(chk.items) /\ pc' = "done"
                        /\ UNCHANGED <<sections, si>>
                        /\ ControllerIdle /\ AttemptIdle
                   ELSE /\ result' = NoValue
                        /\ sections' = split_into_sections(doc)
                        /\ EnterSections(split_into_sections(doc), 1)
    /\ UNCHANGED <<doc, json, all_items, backend_used, failed_sections,
                   targetsVars, repairVars, segmentVars>>

ReplyKinds == {"transport", "status", "envelope", "payload", "ok"}

\* retries += 1, lines 404 and 416
RetriesAfterFailure_stuck(r) == r

RetriesAfterFailure(r) == r + 1

\* process_section returns v, lines 366, 370-372, 398, 406 and 418
AttemptReturn(v) ==
    /\ ps_result' = v
    /\ pc' = "attempt_returned"
    /\ failed_subs' = IF v.tag = "err" /\ level # "whole" THEN failed_subs \cup {sub}
                      ELSE failed_subs
    /\ best_single' = IF v.tag = "ok" THEN Max(best_single, Len(v.items))
                      ELSE best_single

\* One iteration of process_section's loop, lines 309-424: one backend
\* request and the handling of its reply.  kind "transport" is an error of
\* send() or text(), "status" a non-success status, "envelope" a reply that is
\* not a ChatResponse, "payload" a sanitized content that is not a
\* QuestionResponse, "ok" a content that parses into n items.
Request(kind, n) ==
    /\ pc = "request"
    /\ kind = "ok" \/ n = 0
    /\ retries < MAX_RETRIES
    /\ requests' = requests + 1
    /\ backend_used' = TRUE
    /\ reply' = kind
    /\ CASE kind \in {"transport", "status"} ->
                /\ retries' = retries
                /\ AttemptReturn(Failure)
         [] kind \in {"envelope", "payload"} ->
                /\ retries' = RetriesAfterFailure(retries)
                /\ IF RetriesAfterFailure(retries) = MAX_RETRIES
                   THEN AttemptReturn(Failure)
                   ELSE UNCHANGED <<ps_result, pc, failed_subs, best_single>>
         [] kind = "ok" ->
                /\ retries' = retries
                /\ AttemptReturn(Ok(Items(si, level, sub, n)))
    /\ UNCHANGED <<doc, jsonl, json, result, all_items, sections, si, section_target,
                   level, ctl_items, subs, sub, subsection_target, ctl_result,
                   ps_section, generation_target, attempts, failed_sections,
                   failed_ops, writes, targetsVars, repairVars, segmentVars>>

ControllerReturn_empty(v) ==
    /\ ctl_result' = IF v.tag = "ok" THEN Ok(<<>>) ELSE v
    /\ pc' = "section_returned"
    /\ AttemptIdle
    /\ UNCHANGED <<level, subs, sub, subsection_target, attempts, failed_subs>>

\* process_section_recursive returns v to process_file
ControllerReturn(v) ==
    /\ ctl_result' = v
    /\ pc' = "section_returned"
    /\ AttemptIdle
    /\ UNCHANGED <<level, subs, sub, subsection_target, attempts, failed_subs>>

AttemptSub_restarts(lvl, ss, i, acc) ==
    /\ level' = lvl
    /\ subs' = ss
    /\ sub' = 1
    /\ ctl_items' = acc
    /\ subsection_target' =
           ProportionalTarget(section_target, count_words(ss[1]), count_words(sections[si]))
    /\ ctl_result' = NoValue
    /\ failed_subs' = IF lvl = level THEN failed_subs ELSE {}
    /\ BeginAttempt(ss[1], attempts + 1)

\* The controller starts on the sub-section i of the list ss at level lvl,
\* lines 233-239 and 259-265
AttemptSub(lvl, ss, i, acc) ==
    /\ level' = lvl
    /\ subs' = ss
    /\ sub' = i
    /\ ctl_items' = acc
    /\ subsection_target' =
           ProportionalTarget(section_target, count_words(ss[i]), count_words(sections[si]))
    /\ ctl_result' = NoValue
    /\ failed_subs' = IF lvl = level THEN failed_subs ELSE {}
    /\ BeginAttempt(ss[i], attempts + 1)

ParagraphLevel_keeps ==
    LET paragraph_sections == split_by_paragraphs(sections[si])
    IN  IF Len(paragraph_sections) > 1
        THEN AttemptSub("paragraph", paragraph_sections, 1, ctl_items)
        ELSE /\ ctl_items' = ctl_items
             /\ ControllerReturn(Ok(ctl_items))

\* lines 254-258 and 280-282: clear the accumulator and go to the paragraphs
ParagraphLevel ==
    LET paragraph_sections == split_by_paragraphs(sections[si])
    IN  IF Len(paragraph_sections) > 1
        THEN AttemptSub("paragraph", paragraph_sections, 1, <<>>)
        ELSE /\ ctl_items' = <<>>
             /\ ControllerReturn(Ok(<<>>))

AttemptReturned_tries_subs ==
    /\ pc = "attempt_returned"
    /\ LET acc == IF ps_result.tag = "ok" THEN ctl_items \o ps_result.items
                  ELSE ctl_items
       IN  CASE level = "whole" ->
                    IF ps_result.tag = "ok" /\ Len(ps_result.items) >= section_target
                    THEN /\ ctl_items' = ctl_items
                         /\ ControllerReturn(Ok(ps_result.items))
                    ELSE LET heading_sections == split_by_headings(sections[si])
                         IN  IF Len(heading_sections) > 1
                             THEN AttemptSub("heading", heading_sections, 1, <<>>)
                             ELSE ParagraphLevel
             [] level = "heading" ->
                    IF sub < Len(subs)
                    THEN AttemptSub("heading", subs, sub + 1, acc)
                    ELSE IF Len(acc) >= section_target
                    THEN /\ ctl_items' = acc
                         /\ ControllerReturn(Ok(acc))
                    ELSE ParagraphLevel
             [] level = "paragraph" ->
                    IF sub < Len(subs)
                    THEN AttemptSub("paragraph", subs, sub + 1, acc)
                    ELSE /\ ctl_items' = acc
                         /\ ControllerReturn(Ok(acc))
    /\ UNCHANGED <<doc, jsonl, json, result, all_items, sections, si, section_target,
                   backend_used, best_single, failed_sections, failed_ops, writes,
                   targetsVars, repairVars, segmentVars>>

\* process_section_recursive from the return of a process_section call to the
\* next call or to its own return, lines 222-283
AttemptReturned ==
    /\ pc = "attempt_returned"
    /\ LET acc == IF ps_result.tag = "ok" THEN ctl_items \o ps_result.items
                  ELSE ctl_items
       IN  CASE level = "whole" ->
                    IF ps_result.tag = "err"
                    THEN /\ ctl_items' = ctl_items
                         /\ ControllerReturn(Failure)
                    ELSE IF Len(ps_result.items) >= section_target
                    THEN /\ ctl_items' = ctl_items
                         /\ ControllerReturn(Ok(ps_result.items))
                    ELSE LET heading_sections == split_by_headings(sections[si])
                         IN  IF Len(heading_sections) > 1
                             THEN AttemptSub("heading", heading_sections, 1, <<>>)
                             ELSE ParagraphLevel
             [] level = "heading" ->
                    IF sub < Len(subs)
                    THEN AttemptSub("heading", subs, sub + 1, acc)
                    ELSE IF Len(acc) >= section_target
                    THEN /\ ctl_items' = acc
                         /\ ControllerReturn(Ok(acc))
                    ELSE ParagraphLevel
             [] level = "paragraph" ->
                    IF sub < Len(subs)
                    THEN AttemptSub("paragraph", subs, sub + 1, acc)
                    ELSE /\ ctl_items' = acc
                         /\ ControllerReturn(Ok(acc))
    /\ UNCHANGED <<doc, jsonl, json, result, all_items, sections, si, section_target,
                   backend_used, best_single, failed_sections, failed_ops, writes,
                   targetsVars, repairVars, segmentVars>>

SectionReturned_abort ==
    /\ pc = "section_returned"
    /\ failed_sections' = IF ctl_result.tag = "err" THEN failed_sections \cup {si}
                          ELSE failed_sections
    /\ IF ctl_result.tag = "err"
       THEN /\ result' = Failure /\ pc' = "done" /\ si' = si
            /\ ControllerIdle /\ AttemptIdle
            /\ UNCHANGED all_items
       ELSE /\ all_items' = all_items \o ctl_result.items
            /\ EnterSections(sections, si + 1)
            /\ UNCHANGED result
    /\ UNCHANGED <<doc, jsonl, json, sections, backend_used,
                   failed_ops, writes, targetsVars, repairVars, segmentVars>>

SectionReturned_prepends ==
    /\ pc = "section_returned"
    /\ all_items' = IF ctl_result.tag = "ok" THEN ctl_result.items \o all_items
                    ELSE all_items
    /\ failed_sections' = IF ctl_result.tag = "err" THEN failed_sections \cup {si}
                          ELSE failed_sections
    /\ EnterSections(sections, si + 1)
    /\ UNCHANGED <<doc, jsonl, json, result, sections, backend_used,
                   failed_ops, writes, targetsVars, repairVars, segmentVars>>

SectionReturned_saves ==
    /\ pc = "section_returned"
    /\ all_items' = IF ctl_result.tag = "ok" THEN all_items \o ctl_result.items
                    ELSE all_items
    /\ failed_sections' = IF ctl_result.tag = "err" THEN failed_sections \cup {si}
                          ELSE failed_sections
    /\ jsonl' = [exists |-> TRUE, lines |-> all_items']
    /\ writes' = writes + 1
    /\ EnterSections(sections, si + 1)
    /\ UNCHANGED <<doc, json, result, sections, backend_used,
                   failed_ops, targetsVars, repairVars, segmentVars>>

\* process_file from the return of process_section_recursive to the next
\* section's first request or to the end of the loop, lines 553-562
SectionReturned ==
    /\ pc = "section_returned"
    /\ all_items' = IF ctl_result.tag = "ok" THEN all_items \o ctl_result.items
                    ELSE all_items
    /\ failed_sections' = IF ctl_result.tag = "err" THEN failed_sections \cup {si}
                          ELSE failed_sections
    /\ EnterSections(sections, si + 1)
    /\ UNCHANGED <<doc, jsonl, json, result, sections, backend_used,
                   failed_ops, writes, targetsVars, repairVars, segmentVars>>

Save_swallow(f, k) ==
    /\ pc = "save"
    /\ pc' = "done"
    /\ result' = Ok(all_items)
    /\ IF all_items = <<>> \/ f = "none"
       THEN /\ jsonl' = IF all_items = <<>> THEN jsonl
                        ELSE [exists |-> TRUE, lines |-> all_items]
            /\ writes' = IF all_items = <<>> THEN writes ELSE writes + 1
            /\ UNCHANGED failed_ops
       ELSE /\ failed_ops' = failed_ops \cup {f}
            /\ UNCHANGED <<jsonl, writes>>
    /\ UNCHANGED <<doc, json, all_items, sections, si, section_target,
                   level, ctl_items, subs, sub, subsection_target, ctl_result,
                   ps_section, generation_target, retries, requests, reply, ps_result,
                   backend_used, best_single, attempts, failed_subs, failed_sections,
                   targetsVars, repairVars, segmentVars>>

Save_creates_empty(f, k) ==
    /\ pc = "save"
    /\ pc' = "done"
    /\ IF f = "create_jsonl"
       THEN /\ result' = Failure
            /\ failed_ops' = failed_ops \cup {f}
            /\ UNCHANGED <<jsonl, writes>>
       ELSE IF f = "write_jsonl" /\ all_items # <<>>
       THEN /\ result' = Failure
            /\ failed_ops' = failed_ops \cup {f}
            /\ jsonl' = PartialFile(jsonl, all_items, Max(k, 0))
            /\ writes' = writes + 1
       ELSE /\ result' = Ok(all_items)
            /\ jsonl' = [exists |-> TRUE, lines |-> all_items]
            /\ writes' = writes + 1
            /\ UNCHANGED failed_ops
    /\ UNCHANGED <<doc, json, all_items, sections, si, section_target,
                   level, ctl_items, subs, sub, subsection_target, ctl_result,
                   ps_section, generation_target, retries, requests, reply, ps_result,
                   backend_used, best_single, attempts, failed_subs, failed_sections,
                   targetsVars, repairVars, segmentVars>>

\* process_file's save and return, lines 564-575.  f: the file operation that
\* fails, k: the number of lines written before a failing writeln.
Save(f, k) ==
    /\ pc = "save"
    /\ pc' = "done"
    /\ IF all_items = <<>>
       THEN /\ result' = Ok(all_items)
            /\ UNCHANGED <<jsonl, failed_ops, writes>>
       ELSE IF f = "create_jsonl"
       THEN /\ result' = Failure
            /\ failed_ops' = failed_ops \cup {f}
            /\ UNCHANGED <<jsonl, writes>>
       ELSE IF f = "write_jsonl"
       THEN /\ result' = Failure
            /\ failed_ops' = failed_ops \cup {f}
            /\ jsonl' = PartialFile(jsonl, all_items, Max(k, 0))
            /\ writes' = writes + 1
       ELSE /\ result' = Ok(all_items)
            /\ jsonl' = [exists |-> TRUE, lines |-> all_items]
            /\ writes' = writes + 1
            /\ UNCHANGED failed_ops
    /\ UNCHANGED <<doc, json, all_items, sections, si, section_target,
                   level, ctl_items, subs, sub, subsection_target, ctl_result,
                   ps_section, generation_target, retries, requests, reply, ps_result,
                   backend_used, best_single, attempts, failed_subs, failed_sections,
                   targetsVars, repairVars, segmentVars>>

\* The documents.  Without sub-sections: one section of 2 words, one section
\* of 21 words (min_acceptable 3 instead of 2) and a blank document.  With
\* sub-sections: one section with two heading-level sub-sections, one with
\* two paragraphs, two top-level sections the second of which has two
\* heading-level sub-sections, one section with both headings and paragraphs,
\* and two sections the first of which has two heading-level sub-sections
\* and a target of 2, which one reply can reach.
DocPlain == <<"a", " ", "a", "\n">>
DocLong == [i \in 1..42 |-> IF i % 2 = 1 THEN "a" ELSE IF i = 42 THEN "\n" ELSE " "]
DocHeadings == <<"#", " ", "a", "\n", "#", "a", "\n">>
DocParagraphs == <<"a", "\n", "\n", "\n", "a", "\n">>
DocTwoSections == <<"#", " ", "a", "\n", "#", " ", "a", "\n", "#", "a", "\n">>
DocBoth == <<"#", "a", "\n", "\n", "\n", "#", "a", "\n">>
DocSmallTarget ==
    <<"#", " ", "a", "\n", "#", "a", "\n",
      "#", " ", "a", " ", "a", " ", "a", " ", "a", "\n">>
DocBlank == <<"\n">>

SimpleDocs == {DocPlain, DocLong, DocBlank}

RichDocs == {DocHeadings, DocParagraphs, DocTwoSections, DocBoth, DocSmallTarget}

Docs == SimpleDocs \cup RichDocs

\* The previously persisted files: absent, or holding up to MaxFileItems
\* items; the per-line file possibly with a line that does not parse, the
\* legacy file possibly not an array of items at all
JsonlFiles ==
    {[exists |-> FALSE, lines |-> <<>>]}
    \cup {[exists |-> TRUE, lines |-> Items(0, "jsonl", 0, n)] : n \in 0..MaxFileItems}
    \cup {[exists |-> TRUE, lines |-> <<BadLine>> \o Items(0, "jsonl", 0, n)] :
             n \in 1..MaxFileItems}

JsonFiles ==
    {[exists |-> FALSE, valid |-> FALSE, items |-> <<>>],
     [exists |-> TRUE, valid |-> FALSE, items |-> <<>>]}
    \cup {[exists |-> TRUE, valid |-> TRUE, items |-> Items(0, "json", 0, n)] :
             n \in 0..MaxFileItems}

\* A document without sub-sections is combined with every state of the two
\* files; a document with sub-sections with the states in which each file
\* holds at most one line or item
Init ==
    /\ doc \in Docs
    /\ jsonl \in JsonlFiles
    /\ json \in JsonFiles
    /\ doc \in RichDocs => (Len(jsonl.lines) <= 1 /\ Len(json.items) <= 1)
    /\ pc = "start" /\ result = NoValue /\ all_items = <<>>
    /\ sections = <<>> /\ si = 0 /\ section_target = 0
    /\ level = "none" /\ ctl_items = <<>> /\ subs = <<>> /\ sub = 0
    /\ subsection_target = 0 /\ ctl_result = NoValue
    /\ ps_section = <<>> /\ generation_target = 0 /\ retries = 0
    /\ requests = 0 /\ reply = "none" /\ ps_result = NoValue
    /\ backend_used = FALSE /\ best_single = 0 /\ attempts = 0
    /\ failed_subs = {} /\ failed_sections = {} /\ failed_ops = {} /\ writes = 0
    /\ TargetsIdle /\ RepairIdle /\ SegmentIdle

Next ==
    \/ \E F \in SUBSET StartOps, k \in -1..(MaxFileItems - 1) : Start(F, k)
    \/ \E kind \in ReplyKinds, n \in 0..MaxItems : Request(kind, n)
    \/ AttemptReturned
    \/ SectionReturned
    \/ \E f \in SaveOps \cup {"none"}, k \in 0..(MaxItems - 1) : Save(f, k)

Spec == Init /\ [][Next]_vars

(***************************************************************************)
(* Claims on the estimator                                                 *)
(***************************************************************************)
\* C8: for every word count the computed targets satisfy
\* minAcceptable <= baseGoal <= generationTarget, baseGoal >= 2 and
\* minAcceptable >= 2.
C8_TargetsOrdered ==
    targets # NoTargets =>
        /\ targets[3] <= targets[1]
        /\ targets[1] <= targets[2]
        /\ targets[1] >= 2
        /\ targets[3] >= 2

C8_Witness == targets # NoTargets /\ word_count = 0 /\ targets[1] = 2

\* the least n >= 2 with den * n >= num, i.e. max(2, ceil(num / den))
IsMax2Ceil(n, num, den) ==
    /\ n >= 2
    /\ den * n >= num
    /\ n > 2 => den * (n - 1) < num

\* C9: baseGoal = max(2, ceil(w/10)), generationTarget = baseGoal +
\* max(2, ceil(0.25 * baseGoal)), minAcceptable = max(2, ceil(0.8 * baseGoal));
\* w = 100 gives (10, 13, 8) and w = 5 gives (2, 4, 2).
C9_TargetsFormula ==
    targets # NoTargets =>
        /\ IsMax2Ceil(targets[1], word_count, 10)
        /\ IsMax2Ceil(targets[2] - targets[1], targets[1], 4)
        /\ IsMax2Ceil(targets[3], 4 * targets[1], 5)
        /\ word_count = 100 => targets = <<10, 13, 8>>
        /\ word_count = 5 => targets = <<2, 4, 2>>

C9_Witness == targets = <<10, 13, 8>> /\ word_count = 100

(***************************************************************************)
(* Claims on sanitize_json                                                 *)
(***************************************************************************)
\* C10: sanitize_json is idempotent: repairing a repaired text changes nothing.
C10_Idempotent == repaired2.done => repaired2.text = repaired.text

\* C11: for a payload of the expected shape cut off inside entry j after
\* j - 1 >= 1 complete entries, sanitize_json returns a text that parses as a
\* QuestionResponse holding exactly the j - 1 complete pairs; the payload
\* {"questions":[{"question":"Q1","answer":"A1"},{"question":"Q2","ans
\* parses as the one pair (Q1, A1).
C11_TruncatedKeepsCompletePairs ==
    \A j \in 2..MaxEntries : \A m \in EntryStart(j)..(EntryEnd(j) - 1) :
        (repaired.done /\ raw = SubSeq(PayloadOf(MaxEntries), 1, m)) =>
            LET parsed == from_str_QuestionResponse(repaired.text)
            IN  /\ parsed.ok
                /\ parsed.items = [k \in 1..(j - 1) |-> <<QuestionOf(k), AnswerOf(k)>>]

\* the commas of text that are followed, modulo whitespace, by a closing
\* bracket or brace
TrailingCommas(text) ==
    {i \in 1..Len(text) :
        /\ text[i] = ","
        /\ \E j \in (i + 1)..Len(text) :
               /\ text[j] \in {"]", "}"}
               /\ \A k \in (i + 1)..(j - 1) : IsWs(text[k])}

\* text without its character i
Without(text, i) == SubSeq(text, 1, i - 1) \o SubSeq(text, i + 1, Len(text))

\* C17: for a payload that ends with a closing brace, has exactly one comma
\* followed (modulo whitespace) by a closing bracket or brace, and has no
\* newline and no backslash, sanitize_json returns the payload with exactly
\* that comma removed and every other character unchanged.
C17_OneTrailingCommaRemoved ==
    (/\ repaired.done
     /\ EndsWith(raw, <<"}">>)
     /\ Cardinality(TrailingCommas(raw)) = 1
     /\ \A i \in 1..Len(raw) : raw[i] \notin {"\n", "\\"})
    => \A i \in TrailingCommas(raw) : repaired.text = Without(raw, i)

C17_Witness ==
    /\ repaired.done
    /\ raw = QUESTIONS_OPEN \o Entries(MaxEntries) \o <<",", " ", "]", "}">>
    /\ Cardinality(TrailingCommas(raw)) = 1
    /\ repaired.text = QUESTIONS_OPEN \o Entries(MaxEntries) \o <<" ", "]", "}">>
    /\ from_str_QuestionResponse(repaired.text).ok

(***************************************************************************)
(* Claims on the segmenters                                                *)
(***************************************************************************)
\* C12 as stated: the concatenation of the chunks returned by
\* split_by_headings, and likewise by split_by_paragraphs, is the input text.
C12_RoundTrip ==
    /\ by_headings.done => Concat(by_headings.chunks) = section
    /\ by_paragraphs.done => Concat(by_paragraphs.chunks) = section

\* text with every "\r" that stands before a "\n" removed
RECURSIVE DropCr(_)
DropCr(text) ==
    IF text = <<>> THEN <<>>
    ELSE IF Len(text) >= 2 /\ text[1] = "\r" /\ text[2] = "\n" THEN DropCr(Tail(text))
    ELSE <<Head(text)>> \o DropCr(Tail(text))

\* text with every line terminated by one "\n"
Normalised(text) ==
    LET t == DropCr(text)
    IN  IF t = <<>> \/ t[Len(t)] = "\n" THEN t ELSE t \o <<"\n">>

\* part is text without a run of whitespace at its end
IsWithoutBlankTail(part, text) ==
    /\ Len(part) <= Len(text)
    /\ part = SubSeq(text, 1, Len(part))
    /\ IsBlank(SubSeq(text, Len(part) + 1, Len(text)))

\* C12 as amended: a text of whitespace only is returned as the only chunk;
\* for any other text the concatenation of the chunks of split_by_headings is
\* the text with every line terminated by one "\n", and the concatenation of
\* the chunks of split_by_paragraphs is that text without the whitespace-only
\* lines that follow the last paragraph break.
C12_NormalisedRoundTrip ==
    /\ by_headings.done =>
           IF IsBlank(section) THEN by_headings.chunks = <<section>>
           ELSE Concat(by_headings.chunks) = Normalised(section)
    /\ by_paragraphs.done =>
           IF IsBlank(section) THEN by_paragraphs.chunks = <<section>>
           ELSE IsWithoutBlankTail(Concat(by_paragraphs.chunks), Normalised(section))

C12_Witness ==
    /\ by_headings.done /\ by_paragraphs.done
    /\ Len(by_headings.chunks) = 2 /\ Len(by_paragraphs.chunks) = 2
    /\ section[Len(section)] # "\n"

\* C13 as stated: split_by_headings and split_by_paragraphs return at least
\* one chunk and no chunk of whitespace only, for every text.
C13_NoBlankChunk ==
    /\ by_headings.done =>
           /\ Len(by_headings.chunks) >= 1
           /\ \A i \in 1..Len(by_headings.chunks) : ~IsBlank(by_headings.chunks[i])
    /\ by_paragraphs.done =>
           /\ Len(by_paragraphs.chunks) >= 1
           /\ \A i \in 1..Len(by_paragraphs.chunks) : ~IsBlank(by_paragraphs.chunks[i])

\* what C13 as amended says of the chunks returned for text
AtLeastOneNoBlank(chunks, text) ==
    /\ Len(chunks) >= 1
    /\ IF IsBlank(text) THEN chunks = <<text>>
       ELSE \A i \in 1..Len(chunks) : ~IsBlank(chunks[i])

\* C13 as amended: split_by_headings and split_by_paragraphs return at least
\* one chunk; for a text that is empty or of whitespace only the text itself
\* is the only chunk, and for every other text no chunk is of whitespace only.
C13_NoBlankChunkUnlessBlankText ==
    /\ by_headings.done => AtLeastOneNoBlank(by_headings.chunks, section)
    /\ by_paragraphs.done => AtLeastOneNoBlank(by_paragraphs.chunks, section)

C13_Witness ==
    /\ by_headings.done /\ by_paragraphs.done
    /\ Len(section) >= 2 /\ IsBlank(section)
    /\ by_headings.chunks = <<section>> /\ by_paragraphs.chunks = <<section>>

\* number of lines held by the first k chunks
RECURSIVE LinesBefore(_, _)
LinesBefore(chunks, k) ==
    IF k = 0 THEN 0 ELSE LinesBefore(chunks, k - 1) + Len(Lines(chunks[k]))

\* the chunk boundaries: b is in the set when one chunk ends with line b of
\* the text and the next chunk begins with line b + 1
Boundaries(chunks) == {LinesBefore(chunks, k) : k \in 1..(Len(chunks) - 1)}

\* C21: in split_by_paragraphs a chunk boundary lies only inside a run of
\* two or more consecutive blank lines that follows a non-blank line (between
\* the first and the second blank line of the run); a single blank line
\* between two non-blank lines never puts them into different chunks; and a
\* text without two consecutive blank lines yields a single chunk.
C21_ParagraphBoundaries ==
    by_paragraphs.done =>
        LET ls == Lines(section)
            bs == Boundaries(by_paragraphs.chunks)
        IN  /\ \A b \in bs :
                   /\ b >= 2 /\ b + 1 <= Len(ls)
                   /\ ~IsBlank(ls[b - 1]) /\ IsBlank(ls[b]) /\ IsBlank(ls[b + 1])
            /\ \A i \in 2..(Len(ls) - 1) :
                   (IsBlank(ls[i]) /\ ~IsBlank(ls[i - 1]) /\ ~IsBlank(ls[i + 1]))
                       => (i - 1 \notin bs /\ i \notin bs)
            /\ (\A i \in 1..(Len(ls) - 1) : ~(IsBlank(ls[i]) /\ IsBlank(ls[i + 1])))
                   => Len(by_paragraphs.chunks) = 1

\* a text of four lines, non-blank, blank, blank, non-blank, is split between
\* its two blank lines
C21_Witness ==
    /\ by_paragraphs.done
    /\ Len(Lines(section)) = 4
    /\ ~IsBlank(Lines(section)[1]) /\ ~IsBlank(Lines(section)[4])
    /\ Boundaries(by_paragraphs.chunks) = {2}

(***************************************************************************)
(* Claims on process_section, the generation attempt loop                  *)
(***************************************************************************)
\* C1: every failure of a backend request is followed by another request
\* while fewer than 3 requests have been made by the call: a process_section
\* call that fails has made 3 requests.
C1_FailsOnlyAfterThreeRequests ==
    (pc = "attempt_returned" /\ ps_result.tag = "err"
        /\ reply \in {"status", "envelope", "payload"})
    => requests = MAX_RETRIES

\* C2: a process_section call never issues more than 3 requests; while the
\* loop runs, fewer than 3 requests were made and none of them parsed; a
\* request whose payload parses ends the call with the parsed items; the 3rd
\* failed request ends the call with a failure.
C2_AtMostThreeRequests ==
    /\ requests <= MAX_RETRIES
    /\ pc = "request" =>
           /\ requests < MAX_RETRIES
           /\ reply \in {"none", "envelope", "payload"}
           /\ ps_result = NoValue
    /\ (pc = "attempt_returned" /\ reply = "ok") =>
           /\ ps_result.tag = "ok"
           /\ \A i \in 1..Len(ps_result.items) :
                  ps_result.items[i] = Item(si, level, sub, i)
    /\ (pc = "attempt_returned" /\ requests = MAX_RETRIES /\ reply # "ok") =>
           ps_result = Failure

C2_Witness ==
    /\ pc = "attempt_returned" /\ requests = MAX_RETRIES
    /\ reply = "payload" /\ ps_result = Failure

(***************************************************************************)
(* Claims on process_section_recursive, the coverage controller            *)
(***************************************************************************)
\* C3: the sequence returned by process_section_recursive has at least as
\* many items as the largest item count returned by any single attempt of
\* that call.
C3_AtLeastBestSingleAttempt ==
    (pc = "section_returned" /\ ctl_result.tag = "ok") =>
        Len(ctl_result.items) >= best_single

\* C5: the number of pairs requested from the backend for a heading-level or
\* paragraph-level sub-section equals ceil(parentTarget * subWords / parentWords).
C5_RequestsSubTarget ==
    (pc = "request" /\ level \in {"heading", "paragraph"}) =>
        generation_target =
            CeilDiv(section_target * count_words(subs[sub]), count_words(sections[si]))

\* a sub-section whose attempt fails adds no item and the next sibling is attempted
C6_SubFailureStep ==
    (pc = "attempt_returned" /\ level \in {"heading", "paragraph"}
        /\ ps_result.tag = "err" /\ sub < Len(subs))
    => /\ ctl_items' = ctl_items
       /\ pc' = "request" /\ level' = level /\ sub' = sub + 1
       /\ ps_section' = subs[sub + 1]

\* the items of a sub-section whose attempt succeeds are accumulated
C6_SubSuccessStep ==
    (pc = "attempt_returned" /\ level \in {"heading", "paragraph"}
        /\ ps_result.tag = "ok" /\ sub < Len(subs))
    => /\ ctl_items' = ctl_items \o ps_result.items
       /\ pc' = "request" /\ level' = level /\ sub' = sub + 1

\* a failure of the last sub-section leaves the controller to return its
\* accumulation or, from the heading level, to go on to the paragraphs
C6_LastSubFailureStep ==
    (pc = "attempt_returned" /\ level \in {"heading", "paragraph"}
        /\ ps_result.tag = "err" /\ sub = Len(subs))
    => \/ ctl_result' = Ok(ctl_items)
       \/ level = "heading" /\ level' = "paragraph" /\ pc' = "request"
       \/ level = "heading" /\ ctl_result' = Ok(<<>>)

\* a section whose processing fails adds no item, does not end process_file,
\* and the next section that is not blank is processed
C6_SectionFailureStep ==
    (pc = "section_returned" /\ ctl_result.tag = "err")
    => /\ all_items' = all_items
       /\ result' = NoValue
       /\ pc' \in {"request", "save"}
       /\ NextNonBlank(sections, si + 1) # 0 =>
              /\ pc' = "request"
              /\ si' = NextNonBlank(sections, si + 1)
              /\ ps_section' = sections[si']

\* C6: a failed attempt is not fatal beyond its own chunk.  In the controller
\* a sub-section whose attempt fails contributes no item and every later
\* sibling is still attempted and its items accumulated; in process_file a
\* section whose processing fails contributes no item and every later section
\* is still processed.
C6_FailureIsLocal ==
    [][C6_SubFailureStep /\ C6_SubSuccessStep /\ C6_LastSubFailureStep
         /\ C6_SectionFailureStep]_vars

C6_Witness ==
    /\ si = 2 /\ 1 \in failed_sections
    /\ level = "heading" /\ sub = 2 /\ 1 \in failed_subs
    /\ pc = "attempt_returned" /\ ps_result.tag = "ok" /\ Len(ps_result.items) > 0

\* the controller's accumulation once the attempt that returned is added
Accumulated ==
    IF ps_result.tag = "ok" THEN ctl_items \o ps_result.items ELSE ctl_items

\* the heading level ends below the target: its items are dropped and the
\* controller goes to the first paragraph, or returns nothing when the
\* section has no second paragraph
C18_DiscardStep ==
    (pc = "attempt_returned" /\ level = "heading" /\ sub = Len(subs)
        /\ Len(Accumulated) < section_target)
    => /\ ctl_items' = <<>>
       /\ \/ pc' = "request" /\ level' = "paragraph" /\ sub' = 1
          \/ pc' = "section_returned" /\ ctl_result' = Ok(<<>>)

\* C18: whenever the whole-section attempt yields fewer items than the target
\* and the heading-level accumulation is also below the target, the
\* heading-level items are discarded and the controller goes on to the
\* paragraph level: a returned sequence below the target holds only items of
\* paragraph-level attempts.
C18_HeadingItemsDiscarded ==
    /\ [][C18_DiscardStep]_vars
    /\ []((pc = "section_returned" /\ ctl_result.tag = "ok"
             /\ Len(ctl_result.items) < section_target)
           => \A i \in 1..Len(ctl_result.items) : ctl_result.items[i].level = "paragraph")

C18_Witness ==
    /\ pc = "section_returned" /\ level = "paragraph"
    /\ Len(split_by_headings(sections[si])) = 2
    /\ attempts = 1 + 2 + Len(subs)
    /\ best_single = 2
    /\ Len(ctl_result.items) = 1 /\ ctl_result.items[1].level = "paragraph"

\* the whole-section attempt reaches the target: its items are returned
C19_WholeReachedStep ==
    (pc = "attempt_returned" /\ level = "whole" /\ ps_result.tag = "ok"
        /\ Len(ps_result.items) >= section_target)
    => /\ pc' = "section_returned" /\ ctl_result' = Ok(ps_result.items)
       /\ level' = "whole" /\ subs' = <<>> /\ attempts' = 1

\* the heading-level accumulation reaches the target: it is returned
C19_HeadingsReachedStep ==
    (pc = "attempt_returned" /\ level = "heading" /\ sub = Len(subs)
        /\ Len(Accumulated) >= section_target)
    => /\ pc' = "section_returned" /\ ctl_result' = Ok(Accumulated)
       /\ level' = "heading" /\ attempts' = attempts

\* a controller call that has returned issues no request: process_file goes
\* on to another section or to its end
C19_ReturnedStep ==
    pc = "section_returned" => (pc' = "save" \/ (pc' = "request" /\ si' > si))

\* C19: when the whole-section attempt returns at least target items the
\* controller returns exactly those items at once, without segmentation and
\* without another backend request; when the heading-level accumulation
\* reaches the target it is returned without any paragraph-level request.
C19_ReturnsWhenTargetReached ==
    /\ [][C19_WholeReachedStep /\ C19_HeadingsReachedStep /\ C19_ReturnedStep]_vars
    /\ []((pc = "section_returned" /\ level = "whole" /\ ctl_result.tag = "ok"
             /\ ctl_result.items # <<>>)
           => /\ attempts = 1
              /\ \A i \in 1..Len(ctl_result.items) : ctl_result.items[i].level = "whole")
    /\ []((pc = "section_returned" /\ level = "heading" /\ ctl_result.tag = "ok"
             /\ ctl_result.items # <<>>)
           => /\ attempts = 1 + Len(subs)
              /\ \A i \in 1..Len(ctl_result.items) : ctl_result.items[i].level = "heading")

C19_Witness ==
    /\ pc = "section_returned" /\ level = "whole" /\ attempts = 1
    /\ Len(ctl_result.items) >= section_target
    /\ Len(split_by_headings(sections[si])) > 1

\* H and P: the numbers of heading-level and of paragraph-level
\* sub-sections of the section the controller was called on
HeadingCount == Len(split_by_headings(sections[si]))

ParagraphCount == Len(split_by_paragraphs(sections[si]))

\* the controller is running or has just returned
InController == pc \in {"request", "attempt_returned", "section_returned"}

\* where the controller stands: the whole section is attempted first, then
\* each heading-level sub-section once, then each paragraph-level sub-section
\* once; the sub-sections are those of the section itself
C20_Position ==
    InController =>
        CASE level = "whole" -> attempts = 1 /\ subs = <<>>
          [] level = "heading" ->
                 /\ subs = split_by_headings(sections[si])
                 /\ sub \in 1..HeadingCount
                 /\ attempts = 1 + sub
          [] level = "paragraph" ->
                 /\ subs = split_by_paragraphs(sections[si])
                 /\ sub \in 1..ParagraphCount
                 /\ attempts \in {1 + sub, 1 + HeadingCount + sub}

\* an attempt call is made for the next sub-section of the level or for the
\* first one of the next level
C20_NextAttemptStep ==
    (InController /\ attempts' > attempts /\ si' = si)
    => /\ pc = "attempt_returned" /\ attempts' = attempts + 1
       /\ \/ level' = level /\ sub' = sub + 1
          \/ level = "whole" /\ level' \in {"heading", "paragraph"} /\ sub' = 1
          \/ level = "heading" /\ level' = "paragraph" /\ sub = Len(subs) /\ sub' = 1

\* after the last paragraph the controller returns what it accumulated
C20_LastParagraphStep ==
    (pc = "attempt_returned" /\ level = "paragraph" /\ sub = Len(subs))
    => pc' = "section_returned" /\ ctl_result' = Ok(Accumulated)

\* an upper bound on the number of steps the controller call still takes:
\* MAX_RETRIES requests and one return for each attempt call not yet made,
\* and the requests and the return of the attempt call that is running;
\* p is the position, a the number of attempt calls made, r the number of
\* failed requests of the running one
StepsLeft(p, a, r) ==
    LET attempts_left == 1 + HeadingCount + ParagraphCount - a
    IN  CASE p = "request" -> attempts_left * (MAX_RETRIES + 1) + (MAX_RETRIES - r) + 1
          [] p = "attempt_returned" -> attempts_left * (MAX_RETRIES + 1) + 1
          [] OTHER -> 0

\* every step of a running controller call stays on the same section and
\* lowers the bound, which is never negative: the call returns after
\* finitely many steps
C20_ProgressStep ==
    pc \in {"request", "attempt_returned"} =>
        /\ si' = si /\ sections' = sections
        /\ StepsLeft(pc', attempts', retries') < StepsLeft(pc, attempts, retries)
        /\ StepsLeft(pc', attempts', retries') >= 0

\* C20: one call of the controller makes at most 1 + H + P attempt calls:
\* each sub-section is attempted at most once, none is subdivided further,
\* and after the paragraph level the controller returns what it accumulated
\* even below the target; so the call always returns.
C20_BoundedAttempts ==
    /\ [](InController => attempts <= 1 + HeadingCount + ParagraphCount)
    /\ [](C20_Position)
    /\ [][C20_NextAttemptStep /\ C20_LastParagraphStep /\ C20_ProgressStep]_vars

C20_Witness ==
    /\ pc = "section_returned" /\ level = "paragraph"
    /\ HeadingCount = 2 /\ ParagraphCount = 2
    /\ attempts = 1 + HeadingCount + ParagraphCount
    /\ ctl_result.tag = "ok" /\ Len(ctl_result.items) < section_target

\* the whole-section attempt fails: the controller returns the failure at
\* once and starts no attempt on a sub-section
C22_WholeFailureStep ==
    (pc = "attempt_returned" /\ level = "whole" /\ ps_result.tag = "err")
    => /\ pc' = "section_returned" /\ ctl_result' = Failure
       /\ attempts' = attempts /\ level' = "whole"
       /\ subs' = <<>> /\ sub' = 0 /\ ctl_items' = <<>>

\* a controller call that has returned a failure made one attempt, the one
\* on the whole section
C22_FailedAfterOneAttemptStep ==
    (pc = "section_returned" /\ ctl_result.tag = "err")
    => attempts = 1 /\ level = "whole" /\ subs = <<>>

\* process_file adds no item for the section whose controller call failed,
\* does not return, and goes to the next section that is not blank or, when
\* there is none, to the end of its loop
C22_ZeroItemsStep ==
    (pc = "section_returned" /\ ctl_result.tag = "err")
    => /\ all_items' = all_items /\ result' = NoValue
       /\ LET j == NextNonBlank(sections, si + 1)
          IN  IF j = 0 THEN pc' = "save"
              ELSE /\ pc' = "request" /\ si' = j
                   /\ level' = "whole" /\ ps_section' = sections[j]

\* C22: when the whole-section attempt of process_section_recursive fails,
\* the call ends with that failure without an attempt on any heading-level
\* or paragraph-level sub-section; process_file then counts no item for that
\* section and goes on to the next one.
C22_WholeFailureEndsController ==
    [][C22_WholeFailureStep /\ C22_FailedAfterOneAttemptStep
         /\ C22_ZeroItemsStep]_vars

\* the controller has returned a failure for a section that has two
\* heading-level sub-sections and is followed by another section
C22_Witness ==
    /\ pc = "section_returned" /\ ctl_result = Failure
    /\ attempts = 1
    /\ HeadingCount = 2
    /\ NextNonBlank(sections, si + 1) # 0

(***************************************************************************)
(* Claims on process_file and check_existing_qa                            *)
(***************************************************************************)
MinAcceptable == calculate_question_targets(count_words(doc))[3]

\* the per-line file exists and holds at least minAcceptable items
JsonlHolds == jsonl.exists /\ Len(ValidItems(jsonl.lines)) >= MinAcceptable

\* the legacy file exists and holds at least minAcceptable items
JsonHolds == json.exists /\ json.valid /\ Len(json.items) >= MinAcceptable

\* C4 as stated: whenever a persisted result exists in either format with at
\* least minAcceptable items (and no file operation fails), process_file
\* returns exactly those items and issues no backend request, for every
\* combination of the two files.
C4_EitherFormatReturned ==
    [][(pc = "start" /\ failed_ops' = {} /\ (JsonlHolds \/ JsonHolds))
       => /\ pc' = "done"
          /\ result'.tag = "ok"
          /\ \/ JsonlHolds /\ result'.items = ValidItems(jsonl.lines)
             \/ JsonHolds /\ result'.items = json.items
          /\ ~backend_used']_vars

\* C4 as amended: the legacy file counts only when there is no per-line file.
\* When no file operation fails and either the per-line file holds at least
\* minAcceptable items, or there is no per-line file and the legacy file
\* holds at least minAcceptable items, process_file returns exactly those
\* items and issues no backend request.
C4_ExistingReturned ==
    [][(pc = "start" /\ failed_ops' = {}
           /\ (JsonlHolds \/ (~jsonl.exists /\ JsonHolds)))
       => /\ pc' = "done"
          /\ result' = Ok(IF jsonl.exists THEN ValidItems(jsonl.lines) ELSE json.items)
          /\ ~backend_used']_vars

C4_Witness ==
    /\ pc = "done" /\ ~backend_used /\ failed_ops = {}
    /\ result.tag = "ok" /\ Len(result.items) >= MinAcceptable
    /\ result.items = ValidItems(jsonl.lines)

\* C14: when process_file starts with a legacy file, no per-line file, and
\* the legacy file holds at least minAcceptable items for the document's word
\* count, and no file operation fails, it writes a per-line file holding the
\* legacy file's items in the same order, one per line, returns those items
\* and issues no backend request.
C14_LegacyUpgraded ==
    [][(pc = "start" /\ ~jsonl.exists /\ JsonHolds /\ failed_ops' = {})
       => /\ pc' = "done"
          /\ jsonl' = [exists |-> TRUE, lines |-> json.items]
          /\ writes' = 1
          /\ result' = Ok(json.items)
          /\ ~backend_used']_vars

C14_Witness ==
    /\ pc = "done" /\ ~backend_used /\ failed_ops = {} /\ writes = 1
    /\ json.exists /\ Len(json.items) >= MinAcceptable
    /\ jsonl = [exists |-> TRUE, lines |-> json.items]
    /\ result = Ok(json.items)

\* the file operations that write the per-line file
WriteOps == {"convert_write", "create_jsonl", "write_jsonl"}

\* between the first backend request and the end of the loop over the
\* sections the per-line file is not written
C15_NoWriteWhileGeneratingStep ==
    (backend_used /\ pc # "save") => UNCHANGED <<jsonl, writes>>

\* C15: in a generation run of process_file that yields at least one item
\* (no write having failed) the per-line file is written exactly once, only
\* after the last section has been processed and never between backend
\* requests, and it then holds exactly the returned items, one per line, in
\* the returned order.
C15_WrittenOnceAtEnd ==
    /\ [](pc = "save" => NextNonBlank(sections, si) = 0)
    /\ []((pc \in {"request", "attempt_returned", "section_returned", "save"}
             /\ failed_ops \cap WriteOps = {}) => writes = 0)
    /\ []((pc = "done" /\ backend_used /\ result.tag = "ok" /\ result.items # <<>>
             /\ failed_ops \cap WriteOps = {})
           => /\ writes = 1
              /\ jsonl = [exists |-> TRUE, lines |-> result.items])
    /\ [][C15_NoWriteWhileGeneratingStep]_vars

C15_Witness ==
    /\ pc = "done" /\ backend_used /\ result.tag = "ok" /\ writes = 1
    /\ Len(sections) = 2 /\ Len(result.items) >= 2
    /\ jsonl = [exists |-> TRUE, lines |-> result.items]

\* process_file has gone past check_existing_qa into its loop over the sections
Generating == pc \in {"request", "attempt_returned", "section_returned", "save"}

\* check_existing_qa returns None without a failed write of the upgraded
\* per-line file: the two files are as they were
C23_InsufficientStep ==
    (pc = "start" /\ Generating' /\ "convert_write" \notin failed_ops')
    => UNCHANGED <<jsonl, json, writes>>

\* no step of the loop over the sections touches the two files
C23_LoopStep ==
    (Generating /\ pc # "save") => UNCHANGED <<jsonl, json, writes>>

\* the end of a run that has accumulated nothing: no file operation, and an
\* empty collection is returned
C23_EmptySaveStep ==
    (pc = "save" /\ all_items = <<>>)
    => /\ UNCHANGED <<jsonl, json, writes, failed_ops>>
       /\ pc' = "done" /\ result' = Ok(<<>>)

\* C23: a generation run of process_file that ends with no accumulated item
\* creates and writes no file: from the return of check_existing_qa to the
\* return of process_file the per-line and the legacy file keep their state
\* (absent, or with the content they had), process_file returns Ok with an
\* empty collection, and unless the write of an upgraded per-line file has
\* failed in check_existing_qa the whole call has written nothing.
C23_EmptyRunWritesNothing ==
    /\ [][C23_InsufficientStep /\ C23_LoopStep /\ C23_EmptySaveStep]_vars
    /\ []((pc = "done" /\ si > 0 /\ all_items = <<>>)
           => /\ result = Ok(<<>>)
              /\ "convert_write" \notin failed_ops => writes = 0)

\* a run whose requests have produced nothing has returned; the per-line file
\* it found with too few items is still there and was not written
C23_Witness ==
    /\ pc = "done" /\ backend_used /\ si > 0 /\ all_items = <<>>
    /\ result = Ok(<<>>)
    /\ jsonl.exists /\ Len(ValidItems(jsonl.lines)) >= 1
    /\ writes = 0 /\ failed_ops = {}

\* the sections are taken one after another in document order: the section
\* index changes only when process_file starts or when the processing of the
\* current section has ended, and then it grows
C16_NextSectionStep ==
    si' # si => (pc \in {"start", "section_returned"} /\ si' > si)

\* the items obtained for a section are appended to the collection
C16_AppendStep ==
    pc = "section_returned" =>
        all_items' = all_items \o (IF ctl_result.tag = "ok" THEN ctl_result.items ELSE <<>>)

\* C16: process_file processes the sections strictly one after another in
\* document order, no backend request for a later section being issued before
\* the processing of the current one has ended, and the returned collection
\* is the concatenation, in that order, of the item sequences obtained for
\* the sections.
C16_SectionsInOrder ==
    /\ [][C16_NextSectionStep /\ C16_AppendStep]_vars
    /\ [](pc \in {"request", "attempt_returned", "section_returned"} =>
             /\ si \in 1..Len(sections)
             /\ \A i \in 1..Len(all_items) : all_items[i].sec < si
             /\ pc = "request" => (ps_section = sections[si]
                                    \/ (sub \in 1..Len(subs) /\ ps_section = subs[sub]))
             /\ \A i \in 1..Len(ps_result.items) : ps_result.items[i].sec = si
             /\ \A i \in 1..Len(ctl_result.items) : ctl_result.items[i].sec = si)
    /\ []((pc = "done" /\ backend_used /\ result.tag = "ok") =>
             /\ result.items = all_items
             /\ \A i, j \in 1..Len(all_items) :
                    i < j => all_items[i].sec <= all_items[j].sec)

C16_Witness ==
    /\ pc = "done" /\ result.tag = "ok"
    /\ \E i, j \in 1..Len(result.items) :
           i < j /\ result.items[i].sec = 1 /\ result.items[j].sec = 2

\* C7 as stated: process_file ends with an error exactly when a read or write
\* of the source document or of its Q&A files has failed.
C7_EveryFileFailureFatal ==
    pc = "done" => (result = Failure <=> failed_ops # {})

\* the file operations whose failure process_file returns to its caller
FatalOps == {"read_source", "read_source_again", "create_jsonl", "write_jsonl"}

\* after a failure of another file operation process_file goes on to generate
C7_NonFatalStep ==
    (pc = "start" /\ failed_ops' # {} /\ failed_ops' \cap FatalOps = {})
    => pc' \in {"request", "save"} /\ result' = NoValue

\* C7 as amended: process_file ends with an error exactly when reading the
\* source document (at its start or in the check of an existing result) or
\* creating or writing the final per-line file has failed; a failure to read
\* an existing per-line or legacy file or to write the upgraded per-line file
\* is not returned: process_file goes on to a generation run.
C7_FatalFileFailures ==
    /\ [](pc = "done" => (result = Failure <=> failed_ops \cap FatalOps # {}))
    /\ [][C7_NonFatalStep]_vars

C7_Witness ==
    /\ pc = "done" /\ result.tag = "ok" /\ result.items # <<>>
    /\ "read_jsonl" \in failed_ops /\ backend_used

====
